---- MODULE Spec2Model ----
(***************************************************************************)
(* Model of the Shader helper of depend/shader_s.h (constructor, use,      *)
(* setBool, setInt, setFloat, checkCompileErrors) together with the part   *)
(* of the OpenGL context it drives: shader objects, program objects, the   *)
(* current program, the uniform values and the error flag.                 *)
(*                                                                         *)
(* The constructor is modelled statement by statement (pc); every other    *)
(* member function is one action.  The program is single threaded: no      *)
(* member function runs while a constructor is in progress.                *)
(***************************************************************************)
EXTENDS Integers, Sequences, FiniteSets, TLC

(* ---------------------------------------------------------------------- *)
(* Bounds and input sets                                                   *)
(* ---------------------------------------------------------------------- *)

\* largest value passed to setInt / setFloat
MaxVal == 1

Values == 0..MaxVal

\* the Shader objects of the program, in the order they are declared
Instances == {1, 2}

\* files the constructor is given as vertexPath
VertexPaths == {"pass.vs", "bad.vs", "missing"}

\* files the constructor is given as fragmentPath
FragmentPaths == {"uniforms.fs", "shader.fs", "mismatch.fs", "missing"}

\* names passed to setBool / setInt / setFloat
UniformNames == {"u_name", "u_scale", "nope"}

(* ---------------------------------------------------------------------- *)
(* The files on disk and the shading language                              *)
(* ---------------------------------------------------------------------- *)

\* std::ifstream::open on a path that does not exist sets failbit
FileExists(path) == path # "missing"

\* the text of a file; a text is named after the file that holds it and ""
\* is the empty string
FileText(path) == path

\* texts the GLSL compiler accepts.  shader.fs as it is in the repository
\* holds a second "#version 330 core" and a second main() from line 15 on,
\* which the compiler rejects; the empty string has no declaration at all
\* and is rejected as well.  triangle.vs and triangle.fs are the two string
\* constants of 2_triangle.cpp.
SyntaxOK(text) ==
  text \in {"pass.vs", "uniforms.fs", "mismatch.fs", "triangle.vs", "triangle.fs"}

\* outputs a vertex text writes / inputs a fragment text reads
VaryingsOf(text) ==
  CASE text = "pass.vs"     -> {"ourColor", "TexCoord"}
    [] text = "uniforms.fs" -> {"ourColor"}
    [] text = "mismatch.fs" -> {"ourColor", "Normal"}
    [] OTHER                -> {}

\* active uniforms a text declares, in declaration order
UniformsOf(text) ==
  CASE text = "uniforms.fs" -> << [name |-> "u_name",  type |-> "int",   value |-> 0],
                                  [name |-> "u_scale", type |-> "float", value |-> 0] >>
    [] OTHER                -> << >>

(* ---------------------------------------------------------------------- *)
(* The OpenGL context: pure operators on the context record g              *)
(*   g.shaders  : name -> [type, source, compiled, flagged]                *)
(*   g.programs : name -> [attached, linked, uniforms]                     *)
(*   g.current  : the program in use (0: none)                             *)
(*   g.error    : the error flag                                           *)
(*   g.next     : the next unused object name                              *)
(* ---------------------------------------------------------------------- *)

InitGL ==
  [shaders  |-> << >>,
   programs |-> << >>,
   current  |-> 0,
   error    |-> "GL_NO_ERROR",
   next     |-> 1]

\* the error flag keeps the first error until it is read (it never is)
RaiseError(g, e) ==
  IF g.error = "GL_NO_ERROR" THEN [g EXCEPT !.error = e] ELSE g

Extend(f, k, v) == [x \in (DOMAIN f) \cup {k} |-> IF x = k THEN v ELSE f[x]]

glCreateShader(g, type) ==
  [g EXCEPT !.shaders = Extend(g.shaders, g.next,
                               [type |-> type, source |-> "", compiled |-> FALSE,
                                flagged |-> FALSE]),
            !.next = g.next + 1]

glShaderSource(g, shader, text) ==
  [g EXCEPT !.shaders[shader].source = text]

glCompileShader(g, shader) ==
  [g EXCEPT !.shaders[shader].compiled = SyntaxOK(g.shaders[shader].source)]

\* glGetShaderiv(shader, GL_COMPILE_STATUS, &success)
CompileStatus(g, shader) == g.shaders[shader].compiled

glCreateProgram(g) ==
  [g EXCEPT !.programs = Extend(g.programs, g.next,
                                [attached |-> << >>, linked |-> FALSE,
                                 uniforms |-> << >>]),
            !.next = g.next + 1]

glAttachShader(g, program, shader) ==
  [g EXCEPT !.programs[program].attached = Append(@, shader)]

AttachedOfType(g, program, type) ==
  { s \in { g.programs[program].attached[k] : k \in DOMAIN g.programs[program].attached } :
      g.shaders[s].type = type }

\* LinkSucceeds without the rule that every attached shader is compiled
LinkSucceeds_IgnoringCompileStatus(g, program) ==
  LET vs == AttachedOfType(g, program, "GL_VERTEX_SHADER")
      fs == AttachedOfType(g, program, "GL_FRAGMENT_SHADER")
  IN  /\ vs # {} /\ fs # {}
      /\ \A f \in fs : \A v \in vs :
           (g.shaders[f].compiled /\ g.shaders[v].compiled) =>
             VaryingsOf(g.shaders[f].source) \subseteq VaryingsOf(g.shaders[v].source)

\* linking fails when an attached shader is not compiled, when a stage is
\* missing, or when the fragment stage reads an input the vertex stage does
\* not write
LinkSucceeds(g, program) ==
  LET att == g.programs[program].attached
      vs  == AttachedOfType(g, program, "GL_VERTEX_SHADER")
      fs  == AttachedOfType(g, program, "GL_FRAGMENT_SHADER")
  IN  /\ \A k \in DOMAIN att : g.shaders[att[k]].compiled
      /\ vs # {} /\ fs # {}
      /\ \A f \in fs : \A v \in vs :
           VaryingsOf(g.shaders[f].source) \subseteq VaryingsOf(g.shaders[v].source)

RECURSIVE ConcatUniforms(_, _)
ConcatUniforms(g, att) ==
  IF att = << >> THEN << >>
  ELSE UniformsOf(g.shaders[Head(att)].source) \o ConcatUniforms(g, Tail(att))

glLinkProgram(g, program) ==
  IF LinkSucceeds(g, program)
  THEN [g EXCEPT !.programs[program].linked = TRUE,
                 !.programs[program].uniforms =
                     ConcatUniforms(g, g.programs[program].attached)]
  ELSE [g EXCEPT !.programs[program].linked = FALSE,
                 !.programs[program].uniforms = << >>]

\* glGetProgramiv(program, GL_LINK_STATUS, &success)
LinkStatus(g, program) == g.programs[program].linked

\* a shader attached to a program is only flagged for deletion
glDeleteShader(g, shader) ==
  [g EXCEPT !.shaders[shader].flagged = TRUE]


IsLinkedProgram(g, program) ==
  program \in DOMAIN g.programs /\ g.programs[program].linked

\* glUseProgram installs a program only when it is a linked program object
\* (or 0); otherwise it raises an error and the current program stays
glUseProgram(g, program) ==
  IF program = 0 \/ IsLinkedProgram(g, program)
  THEN [g EXCEPT !.current = program]
  ELSE IF program \in DOMAIN g.programs
       THEN RaiseError(g, "GL_INVALID_OPERATION")
       ELSE RaiseError(g, "GL_INVALID_VALUE")

\* locations of a linked program are the indices of its active uniforms,
\* counted from 0; -1 stands for "no such uniform"
LocationOf(g, program, name) ==
  IF IsLinkedProgram(g, program)
     /\ \E k \in DOMAIN g.programs[program].uniforms :
           g.programs[program].uniforms[k].name = name
  THEN (CHOOSE k \in DOMAIN g.programs[program].uniforms :
           g.programs[program].uniforms[k].name = name) - 1
  ELSE -1

\* glGetUniformLocation returning location 0 for a name that is not active
glGetUniformLocation_ZeroWhenAbsent(g, program, name) ==
  [loc |-> IF LocationOf(g, program, name) = -1 THEN 0 ELSE LocationOf(g, program, name),
   g   |-> g]

\* glGetUniformLocation: the location it returns and the context it leaves
glGetUniformLocation(g, program, name) ==
  [loc |-> LocationOf(g, program, name),
   g   |-> IF IsLinkedProgram(g, program) THEN g
           ELSE IF program \in DOMAIN g.programs
                THEN RaiseError(g, "GL_INVALID_OPERATION")
                ELSE RaiseError(g, "GL_INVALID_VALUE")]

\* UniformWrite writing the location in every linked program that has it
UniformWrite_EveryProgram(g, loc, v, accepts, lenient) ==
  IF loc = -1 THEN g
  ELSE [g EXCEPT !.programs =
          [p \in DOMAIN g.programs |->
             IF loc + 1 \in DOMAIN g.programs[p].uniforms
                /\ g.programs[p].uniforms[loc + 1].type \in accepts
             THEN [g.programs[p] EXCEPT !.uniforms[loc + 1].value = v]
             ELSE g.programs[p]]]

\* glUniform1i / glUniform1f write the uniform at a location of the CURRENT
\* program.  accepts is the set of uniform types the entry point may write.
\* With no current program the call raises GL_INVALID_OPERATION; for
\* location -1 drivers differ in whether they check the current program
\* first (lenient = the driver ignores location -1 before any check).
UniformWrite(g, loc, v, accepts, lenient) ==
  IF loc = -1 /\ (lenient \/ g.current # 0) THEN g
  ELSE IF g.current = 0 THEN RaiseError(g, "GL_INVALID_OPERATION")
  ELSE LET us == g.programs[g.current].uniforms IN
       IF loc + 1 \notin DOMAIN us THEN RaiseError(g, "GL_INVALID_OPERATION")
       ELSE IF us[loc + 1].type \notin accepts THEN RaiseError(g, "GL_INVALID_OPERATION")
       ELSE [g EXCEPT !.programs[g.current].uniforms[loc + 1].value = v]

glUniform1i(g, loc, v, lenient) == UniformWrite(g, loc, v, {"int", "sampler2D"}, lenient)

glUniform1f(g, loc, v, lenient) == UniformWrite(g, loc, v, {"float"}, lenient)

\* glGetUniformiv / glGetUniformfv(program, location): the read-back of a
\* uniform of a linked program, by name
ReadBack(g, program, name) ==
  g.programs[program].uniforms[LocationOf(g, program, name) + 1].value

\* the type of an active uniform of a linked program
TypeOf(g, program, name) ==
  g.programs[program].uniforms[LocationOf(g, program, name) + 1].type

\* the uniform values of every program object
UniformState(g) == [p \in DOMAIN g.programs |-> g.programs[p].uniforms]

(* ---------------------------------------------------------------------- *)
(* The program state                                                       *)
(* ---------------------------------------------------------------------- *)

VARIABLES
  obj,       \* obj[i]: the Shader object i: its lifetime state and its ID
  pc,        \* the statement the running constructor is at, or "idle"
  frame,     \* the locals of the running constructor
  gl,        \* the OpenGL context
  log,       \* log[i]: the calls and the output of the constructor of i
  lastOp,    \* the last member function that returned, with its arguments
  lastBind,  \* the object whose use() was the last call of glUseProgram
  main       \* the demo program running main(), if any: its position, the
             \* window's close flag and key state, and the calls it made

shaderVars == << obj, pc, frame, gl, log, lastOp, lastBind >>

vars == << obj, pc, frame, gl, log, lastOp, lastBind, main >>

NoFrame ==
  [self |-> 0, vertexPath |-> "", fragmentPath |-> "",
   vertexCode |-> "", fragmentCode |-> "", vertex |-> 0, fragment |-> 0]

NoOp == [op |-> "none", self |-> 0, name |-> "", value |-> 0, drawn |-> 0]

\* no main() is running
NoMain ==
  [demo |-> "none", mpc |-> "none", shouldClose |-> FALSE, escape |-> FALSE,
   frames |-> 0, program |-> 0, deleted |-> {}, calls |-> << >>, ret |-> "none"]

Init ==
  /\ obj = [i \in Instances |-> [state |-> "none", ID |-> 0]]
  /\ pc = "idle"
  /\ frame = NoFrame
  /\ gl = InitGL
  /\ log = [i \in Instances |-> << >>]
  /\ lastOp = NoOp
  /\ lastBind = 0
  /\ main = NoMain

Event(call, arg, res) == [call |-> call, arg |-> arg, res |-> res]

Emit(evs) == log' = [log EXCEPT ![frame.self] = @ \o evs]

BoolStr(b) == IF b THEN "true" ELSE "false"

(* ---------------------------------------------------------------------- *)
(* Shader::checkCompileErrors                                              *)
(* ---------------------------------------------------------------------- *)

\* checkCompileErrors printing the tag VERTEX for every compile error
checkCompileErrors_VertexTag(g, shader, type) ==
  IF type # "PROGRAM"
  THEN << Event("glGetShaderiv", type, BoolStr(CompileStatus(g, shader))) >>
       \o (IF ~CompileStatus(g, shader)
           THEN << Event("cout", "ERROR::SHADER_COMPILATION_ERROR", "VERTEX") >>
           ELSE << >>)
  ELSE << Event("glGetProgramiv", type, BoolStr(LinkStatus(g, shader))) >>
       \o (IF ~LinkStatus(g, shader)
           THEN << Event("cout", "ERROR::PROGRAM_LINKING_ERROR", type) >>
           ELSE << >>)

\* checkCompileErrors testing success where it should test !success
checkCompileErrors_Inverted(g, shader, type) ==
  IF type # "PROGRAM"
  THEN << Event("glGetShaderiv", type, BoolStr(CompileStatus(g, shader))) >>
       \o (IF CompileStatus(g, shader)
           THEN << Event("cout", "ERROR::SHADER_COMPILATION_ERROR", type) >>
           ELSE << >>)
  ELSE << Event("glGetProgramiv", type, BoolStr(LinkStatus(g, shader))) >>
       \o (IF LinkStatus(g, shader)
           THEN << Event("cout", "ERROR::PROGRAM_LINKING_ERROR", type) >>
           ELSE << >>)

\* the status query it makes and the line it prints, if any
checkCompileErrors(g, shader, type) ==
  IF type # "PROGRAM"
  THEN << Event("glGetShaderiv", type, BoolStr(CompileStatus(g, shader))) >>
       \o (IF ~CompileStatus(g, shader)
           THEN << Event("cout", "ERROR::SHADER_COMPILATION_ERROR", type) >>
           ELSE << >>)
  ELSE << Event("glGetProgramiv", type, BoolStr(LinkStatus(g, shader))) >>
       \o (IF ~LinkStatus(g, shader)
           THEN << Event("cout", "ERROR::PROGRAM_LINKING_ERROR", type) >>
           ELSE << >>)

(* ---------------------------------------------------------------------- *)
(* Shader::Shader(vertexPath, fragmentPath), statement by statement        *)
(* ---------------------------------------------------------------------- *)

\* ReadFiles assigning each string as soon as its own file has been read
ReadFiles_PerFile(vertexPath, fragmentPath) ==
  [vertexCode   |-> IF FileExists(vertexPath) THEN FileText(vertexPath) ELSE "",
   fragmentCode |-> IF FileExists(vertexPath) /\ FileExists(fragmentPath)
                    THEN FileText(fragmentPath) ELSE "",
   failed       |-> ~(FileExists(vertexPath) /\ FileExists(fragmentPath))]

\* the try block: the first failing open throws, the catch prints, and the
\* two strings are assigned only when nothing threw
ReadFiles(vertexPath, fragmentPath) ==
  IF FileExists(vertexPath) /\ FileExists(fragmentPath)
  THEN [vertexCode |-> FileText(vertexPath), fragmentCode |-> FileText(fragmentPath),
        failed |-> FALSE]
  ELSE [vertexCode |-> "", fragmentCode |-> "", failed |-> TRUE]

Construct(i, vertexPath, fragmentPath) ==
  /\ pc = "idle"
  /\ obj[i].state = "none"
  /\ \A j \in Instances : j < i => obj[j].state = "built"
  /\ obj' = [obj EXCEPT ![i].state = "building"]
  /\ frame' = [NoFrame EXCEPT !.self = i, !.vertexPath = vertexPath,
                              !.fragmentPath = fragmentPath]
  /\ log' = [log EXCEPT ![i] = << Event("Shader", vertexPath, fragmentPath) >>]
  /\ pc' = "read"
  /\ UNCHANGED << gl, lastOp, lastBind, main >>

\* Read printing the diagnostic once for each file that cannot be opened
Read_DiagPerFile ==
  /\ pc = "read"
  /\ LET r == ReadFiles(frame.vertexPath, frame.fragmentPath)
         d == << Event("cout", "ERROR::SHADER::FILE_NOT_SUCCESFULLY_READ", "") >>
     IN
       /\ frame' = [frame EXCEPT !.vertexCode = r.vertexCode,
                                 !.fragmentCode = r.fragmentCode]
       /\ Emit(<< Event("read", "", BoolStr(~r.failed)) >>
               \o (IF FileExists(frame.vertexPath) THEN << >> ELSE d)
               \o (IF FileExists(frame.fragmentPath) THEN << >> ELSE d))
  /\ pc' = "createVertex"
  /\ UNCHANGED << obj, gl, lastOp, lastBind, main >>

Read ==
  /\ pc = "read"
  /\ LET r == ReadFiles(frame.vertexPath, frame.fragmentPath) IN
       /\ frame' = [frame EXCEPT !.vertexCode = r.vertexCode,
                                 !.fragmentCode = r.fragmentCode]
       /\ Emit(<< Event("read", "", BoolStr(~r.failed)) >>
               \o (IF r.failed
                   THEN << Event("cout", "ERROR::SHADER::FILE_NOT_SUCCESFULLY_READ", "") >>
                   ELSE << >>))
  /\ pc' = "createVertex"
  /\ UNCHANGED << obj, gl, lastOp, lastBind, main >>

CreateVertex ==
  /\ pc = "createVertex"
  /\ gl' = glCreateShader(gl, "GL_VERTEX_SHADER")
  /\ frame' = [frame EXCEPT !.vertex = gl.next]
  /\ Emit(<< Event("glCreateShader", "VERTEX", "") >>)
  /\ pc' = "sourceVertex"
  /\ UNCHANGED << obj, lastOp, lastBind, main >>

SourceVertex ==
  /\ pc = "sourceVertex"
  /\ gl' = glShaderSource(gl, frame.vertex, frame.vertexCode)
  /\ Emit(<< Event("glShaderSource", "VERTEX", frame.vertexCode) >>)
  /\ pc' = "compileVertex"
  /\ UNCHANGED << obj, frame, lastOp, lastBind, main >>

CompileVertex ==
  /\ pc = "compileVertex"
  /\ gl' = glCompileShader(gl, frame.vertex)
  /\ Emit(<< Event("glCompileShader", "VERTEX", "") >>)
  /\ pc' = "checkVertex"
  /\ UNCHANGED << obj, frame, lastOp, lastBind, main >>

\* CheckVertex returning from the constructor when the compile failed
CheckVertex_ReturnsOnFailure ==
  /\ pc = "checkVertex"
  /\ Emit(checkCompileErrors(gl, frame.vertex, "VERTEX"))
  /\ IF CompileStatus(gl, frame.vertex)
     THEN /\ pc' = "createFragment"
          /\ UNCHANGED << obj, frame, lastOp >>
     ELSE /\ pc' = "idle"
          /\ obj' = [obj EXCEPT ![frame.self].state = "built"]
          /\ frame' = NoFrame
          /\ lastOp' = [NoOp EXCEPT !.op = "Shader", !.self = frame.self]
  /\ UNCHANGED << gl, lastBind, main >>

CheckVertex ==
  /\ pc = "checkVertex"
  /\ Emit(checkCompileErrors(gl, frame.vertex, "VERTEX"))
  /\ pc' = "createFragment"
  /\ UNCHANGED << obj, frame, gl, lastOp, lastBind, main >>

CreateFragment ==
  /\ pc = "createFragment"
  /\ gl' = glCreateShader(gl, "GL_FRAGMENT_SHADER")
  /\ frame' = [frame EXCEPT !.fragment = gl.next]
  /\ Emit(<< Event("glCreateShader", "FRAGMENT", "") >>)
  /\ pc' = "sourceFragment"
  /\ UNCHANGED << obj, lastOp, lastBind, main >>

SourceFragment ==
  /\ pc = "sourceFragment"
  /\ gl' = glShaderSource(gl, frame.fragment, frame.fragmentCode)
  /\ Emit(<< Event("glShaderSource", "FRAGMENT", frame.fragmentCode) >>)
  /\ pc' = "compileFragment"
  /\ UNCHANGED << obj, frame, lastOp, lastBind, main >>

CompileFragment ==
  /\ pc = "compileFragment"
  /\ gl' = glCompileShader(gl, frame.fragment)
  /\ Emit(<< Event("glCompileShader", "FRAGMENT", "") >>)
  /\ pc' = "checkFragment"
  /\ UNCHANGED << obj, frame, lastOp, lastBind, main >>

\* CheckFragment passing the tag of the vertex stage
CheckFragment_VertexTag ==
  /\ pc = "checkFragment"
  /\ Emit(checkCompileErrors(gl, frame.fragment, "VERTEX"))
  /\ pc' = "createProgram"
  /\ UNCHANGED << obj, frame, gl, lastOp, lastBind, main >>

CheckFragment ==
  /\ pc = "checkFragment"
  /\ Emit(checkCompileErrors(gl, frame.fragment, "FRAGMENT"))
  /\ pc' = "createProgram"
  /\ UNCHANGED << obj, frame, gl, lastOp, lastBind, main >>

CreateProgram ==
  /\ pc = "createProgram"
  /\ gl' = glCreateProgram(gl)
  /\ obj' = [obj EXCEPT ![frame.self].ID = gl.next]
  /\ Emit(<< Event("glCreateProgram", "PROGRAM", "") >>)
  /\ pc' = "attachVertex"
  /\ UNCHANGED << frame, lastOp, lastBind, main >>

AttachVertex ==
  /\ pc = "attachVertex"
  /\ gl' = glAttachShader(gl, obj[frame.self].ID, frame.vertex)
  /\ Emit(<< Event("glAttachShader", "VERTEX", "") >>)
  /\ pc' = "attachFragment"
  /\ UNCHANGED << obj, frame, lastOp, lastBind, main >>

AttachFragment ==
  /\ pc = "attachFragment"
  /\ gl' = glAttachShader(gl, obj[frame.self].ID, frame.fragment)
  /\ Emit(<< Event("glAttachShader", "FRAGMENT", "") >>)
  /\ pc' = "link"
  /\ UNCHANGED << obj, frame, lastOp, lastBind, main >>

Link ==
  /\ pc = "link"
  /\ gl' = glLinkProgram(gl, obj[frame.self].ID)
  /\ Emit(<< Event("glLinkProgram", "PROGRAM", "") >>)
  /\ pc' = "checkProgram"
  /\ UNCHANGED << obj, frame, lastOp, lastBind, main >>

CheckProgram ==
  /\ pc = "checkProgram"
  /\ Emit(checkCompileErrors(gl, obj[frame.self].ID, "PROGRAM"))
  /\ pc' = "deleteVertex"
  /\ UNCHANGED << obj, frame, gl, lastOp, lastBind, main >>

DeleteVertex ==
  /\ pc = "deleteVertex"
  /\ gl' = glDeleteShader(gl, frame.vertex)
  /\ Emit(<< Event("glDeleteShader", "VERTEX", "") >>)
  /\ pc' = "deleteFragment"
  /\ UNCHANGED << obj, frame, lastOp, lastBind, main >>

\* DeleteFragment deleting the vertex shader a second time
DeleteFragment_DeletesVertexAgain ==
  /\ pc = "deleteFragment"
  /\ gl' = glDeleteShader(gl, frame.vertex)
  /\ Emit(<< Event("glDeleteShader", "VERTEX", "") >>)
  /\ obj' = [obj EXCEPT ![frame.self].state = "built"]
  /\ frame' = NoFrame
  /\ pc' = "idle"
  /\ lastOp' = [NoOp EXCEPT !.op = "Shader", !.self = frame.self]
  /\ UNCHANGED << lastBind, main >>

\* the last statement; the constructor returns and its locals are gone
DeleteFragment ==
  /\ pc = "deleteFragment"
  /\ gl' = glDeleteShader(gl, frame.fragment)
  /\ Emit(<< Event("glDeleteShader", "FRAGMENT", "") >>)
  /\ obj' = [obj EXCEPT ![frame.self].state = "built"]
  /\ frame' = NoFrame
  /\ pc' = "idle"
  /\ lastOp' = [NoOp EXCEPT !.op = "Shader", !.self = frame.self]
  /\ UNCHANGED << lastBind, main >>

(* ---------------------------------------------------------------------- *)
(* Shader::use, setBool, setInt, setFloat and a draw call of main          *)
(* ---------------------------------------------------------------------- *)

Callable(i) == pc = "idle" /\ obj[i].state = "built"

\* use() unbinding the current program
use_BindsZero(i) ==
  /\ Callable(i)
  /\ gl' = glUseProgram(gl, 0)
  /\ lastOp' = [NoOp EXCEPT !.op = "use", !.self = i]
  /\ lastBind' = i
  /\ UNCHANGED << obj, pc, frame, log, main >>

use(i) ==
  /\ Callable(i)
  /\ gl' = glUseProgram(gl, obj[i].ID)
  /\ lastOp' = [NoOp EXCEPT !.op = "use", !.self = i]
  /\ lastBind' = i
  /\ UNCHANGED << obj, pc, frame, log, main >>

\* (int)value of a bool
BoolToInt(b) == IF b THEN 1 ELSE 0

setBool(i, name, value, lenient) ==
  /\ Callable(i)
  /\ LET r == glGetUniformLocation(gl, obj[i].ID, name)
     IN  gl' = glUniform1i(r.g, r.loc, BoolToInt(value), lenient)
  /\ lastOp' = [NoOp EXCEPT !.op = "setBool", !.self = i, !.name = name,
                            !.value = BoolToInt(value)]
  /\ UNCHANGED << obj, pc, frame, log, lastBind, main >>

\* setInt calling glUniform1f
setInt_ViaUniform1f(i, name, value, lenient) ==
  /\ Callable(i)
  /\ LET r == glGetUniformLocation(gl, obj[i].ID, name)
     IN  gl' = glUniform1f(r.g, r.loc, value, lenient)
  /\ lastOp' = [NoOp EXCEPT !.op = "setInt", !.self = i, !.name = name, !.value = value]
  /\ UNCHANGED << obj, pc, frame, log, lastBind, main >>

setInt(i, name, value, lenient) ==
  /\ Callable(i)
  /\ LET r == glGetUniformLocation(gl, obj[i].ID, name)
     IN  gl' = glUniform1i(r.g, r.loc, value, lenient)
  /\ lastOp' = [NoOp EXCEPT !.op = "setInt", !.self = i, !.name = name, !.value = value]
  /\ UNCHANGED << obj, pc, frame, log, lastBind, main >>

setFloat(i, name, value, lenient) ==
  /\ Callable(i)
  /\ LET r == glGetUniformLocation(gl, obj[i].ID, name)
     IN  gl' = glUniform1f(r.g, r.loc, value, lenient)
  /\ lastOp' = [NoOp EXCEPT !.op = "setFloat", !.self = i, !.name = name, !.value = value]
  /\ UNCHANGED << obj, pc, frame, log, lastBind, main >>

\* glDrawElements of the render loop: it draws with the current program
Draw ==
  /\ pc = "idle"
  /\ lastOp' = [NoOp EXCEPT !.op = "draw", !.drawn = gl.current]
  /\ UNCHANGED << obj, pc, frame, gl, log, lastBind, main >>

Next ==
  \/ \E i \in Instances, vp \in VertexPaths, fp \in FragmentPaths : Construct(i, vp, fp)
  \/ Read
  \/ CreateVertex
  \/ SourceVertex
  \/ CompileVertex
  \/ CheckVertex
  \/ CreateFragment
  \/ SourceFragment
  \/ CompileFragment
  \/ CheckFragment
  \/ CreateProgram
  \/ AttachVertex
  \/ AttachFragment
  \/ Link
  \/ CheckProgram
  \/ DeleteVertex
  \/ DeleteFragment
  \/ \E i \in Instances : use(i)
  \/ \E i \in Instances, n \in UniformNames, b \in BOOLEAN, l \in BOOLEAN : setBool(i, n, b, l)
  \/ \E i \in Instances, n \in UniformNames, v \in Values, l \in BOOLEAN : setInt(i, n, v, l)
  \/ \E i \in Instances, n \in UniformNames, v \in Values, l \in BOOLEAN : setFloat(i, n, v, l)
  \/ Draw

Spec == Init /\ [][Next]_vars

(* ---------------------------------------------------------------------- *)
(* The demo programs: main() of 1_window.cpp, 2_triangle.cpp and           *)
(* 1_texture.cpp.  main.calls is the sequence of calls main has made.      *)
(* ---------------------------------------------------------------------- *)

Demos == {"window", "triangle", "texture"}

\* most iterations of the render loop that are followed
MaxFrames == 2

\* main goes to position next having made the calls evs
Step(next, evs) == [main EXCEPT !.mpc = next, !.calls = @ \o evs]

\* main returns value having made the calls evs
Return(value, evs) ==
  [main EXCEPT !.mpc = "returned", !.calls = @ \o evs \o << "return" >>, !.ret = value]

\* glDeleteProgram: the programs released so far
glDeleteProgram(deleted, program) == deleted \cup {program}

\* glfwInit and the window hints
MainInit ==
  /\ main.mpc = "start"
  /\ main' = Step("createWindow", << "glfwInit" >>)
  /\ UNCHANGED shaderVars

\* glfwCreateWindow and, when it returns a window, glfwMakeContextCurrent
CreateWindow(ok) ==
  /\ main.mpc = "createWindow"
  /\ main' = IF ok
             THEN Step("loadGL", << "glfwCreateWindow", "glfwMakeContextCurrent" >>)
             ELSE Return("-1", << "glfwCreateWindow", "cout:Failed to create GLFW window",
                                  "glfwTerminate" >>)
  /\ UNCHANGED shaderVars

\* where main goes on after the function loader
AfterLoad(demo) ==
  CASE demo = "window"   -> "loopTest"
    [] demo = "triangle" -> "build"
    [] demo = "texture"  -> "shader"

LoadGL(ok) ==
  /\ main.mpc = "loadGL"
  /\ main' = IF ok
             THEN Step(AfterLoad(main.demo), << "gladLoadGLLoader" >>)
             ELSE Return("-1", << "gladLoadGLLoader", "cout:Failed to initialize GLAD" >>)
  /\ UNCHANGED shaderVars

\* 2_triangle.cpp: the inline build of shaderProgram and the vertex data
TriangleBuild ==
  /\ main.mpc = "build"
  /\ LET vertexShader   == gl.next
         g1 == glCompileShader(glShaderSource(glCreateShader(gl, "GL_VERTEX_SHADER"),
                                              vertexShader, "triangle.vs"), vertexShader)
         fragmentShader == g1.next
         g2 == glCompileShader(glShaderSource(glCreateShader(g1, "GL_FRAGMENT_SHADER"),
                                              fragmentShader, "triangle.fs"), fragmentShader)
         shaderProgram  == g2.next
         g3 == glLinkProgram(glAttachShader(glAttachShader(glCreateProgram(g2),
                                 shaderProgram, vertexShader), shaderProgram, fragmentShader),
                             shaderProgram)
     IN  /\ gl' = glDeleteShader(glDeleteShader(g3, vertexShader), fragmentShader)
         /\ main' = [Step("loopTest",
                       (IF CompileStatus(g1, vertexShader) THEN << >>
                        ELSE << "cout:ERROR::SHADER::VERTEX::COMPILATION_FAILED" >>)
                       \o (IF CompileStatus(g2, fragmentShader) THEN << >>
                           ELSE << "cout:ERROR::SHADER::FRAGMENT::COMPILATION_FAILED" >>)
                       \o << "glCreateProgram", "glLinkProgram" >>
                       \o (IF LinkStatus(g3, shaderProgram) THEN << >>
                           ELSE << "cout:ERROR::SHADER::PROGRAM::LINKING_FAILED" >>)
                       \o << "glDeleteShader", "glDeleteShader", "glGenVertexArrays" >>)
                     EXCEPT !.program = shaderProgram]
  /\ UNCHANGED << obj, pc, frame, log, lastOp, lastBind >>

\* 1_texture.cpp: Shader ourShader(vertexPath, fragmentPath)
NewOurShader(vertexPath, fragmentPath) ==
  /\ main.demo = "texture"
  /\ main.mpc = "shader"
  /\ Construct(1, vertexPath, fragmentPath)

\* 1_texture.cpp: the vertex data and the texture object, once the
\* constructor of ourShader has returned
TextureGeometry ==
  /\ main.mpc = "shader"
  /\ pc = "idle" /\ obj[1].state = "built"
  /\ main' = Step("loadTexture", << "glCreateProgram", "glGenVertexArrays", "glGenTextures" >>)
  /\ UNCHANGED shaderVars

\* LoadTexture calling stbi_image_free only inside if (data)
LoadTexture_FreeOnlyOnSuccess(ok) ==
  /\ main.mpc = "loadTexture"
  /\ main' = Step("loopTest",
                  IF ok
                  THEN << "stbi_load:buffer", "glTexImage2D", "glGenerateMipmap",
                          "stbi_image_free:buffer" >>
                  ELSE << "stbi_load:null", "cout:Failed to load texture" >>)
  /\ UNCHANGED shaderVars

\* 1_texture.cpp: stbi_load, the upload under if (data), stbi_image_free
LoadTexture(ok) ==
  /\ main.mpc = "loadTexture"
  /\ main' = Step("loopTest",
                  IF ok
                  THEN << "stbi_load:buffer", "glTexImage2D", "glGenerateMipmap",
                          "stbi_image_free:buffer" >>
                  ELSE << "stbi_load:null", "cout:Failed to load texture",
                          "stbi_image_free:null" >>)
  /\ UNCHANGED shaderVars

\* where main goes when the loop condition is false
AfterLoop(demo) == IF demo = "window" THEN "terminate" ELSE "cleanup"

\* while (!glfwWindowShouldClose(window))
LoopTest ==
  /\ main.mpc = "loopTest"
  /\ IF main.shouldClose
     THEN main' = Step(AfterLoop(main.demo), << "glfwWindowShouldClose:true" >>)
     ELSE /\ main.frames < MaxFrames
          /\ main' = [Step("processInput", << "glfwWindowShouldClose:false" >>)
                        EXCEPT !.frames = @ + 1]
  /\ UNCHANGED shaderVars

\* ProcessInput leaving the loop at once when Escape is pressed
ProcessInput_LeavesLoop ==
  /\ main.mpc = "processInput"
  /\ main' = IF main.escape
             THEN [Step(AfterLoop(main.demo), << "processInput", "glfwSetWindowShouldClose" >>)
                     EXCEPT !.shouldClose = TRUE]
             ELSE Step("clear", << "processInput" >>)
  /\ UNCHANGED shaderVars

\* processInput(window)
ProcessInput ==
  /\ main.mpc = "processInput"
  /\ main' = IF main.escape
             THEN [Step("clear", << "processInput", "glfwSetWindowShouldClose" >>)
                     EXCEPT !.shouldClose = TRUE]
             ELSE Step("clear", << "processInput" >>)
  /\ UNCHANGED shaderVars

\* glClearColor and glClear
Clear ==
  /\ main.mpc = "clear"
  /\ main' = Step(IF main.demo = "window" THEN "swap" ELSE "drawFrame", << "glClear" >>)
  /\ UNCHANGED shaderVars

\* the bind and the draw of the frame: glUseProgram(shaderProgram) in
\* 2_triangle.cpp, ourShader.use() in 1_texture.cpp, then glDrawElements
DrawFrame ==
  /\ main.mpc = "drawFrame"
  /\ gl' = glUseProgram(gl, IF main.demo = "texture" THEN obj[1].ID ELSE main.program)
  /\ lastBind' = IF main.demo = "texture" THEN 1 ELSE 0
  /\ lastOp' = [NoOp EXCEPT !.op = "draw", !.drawn = gl'.current]
  /\ main' = Step("swap", << "glUseProgram", "glDrawElements" >>)
  /\ UNCHANGED << obj, pc, frame, log >>

SwapBuffers ==
  /\ main.mpc = "swap"
  /\ main' = Step("poll", << "glfwSwapBuffers" >>)
  /\ UNCHANGED shaderVars

\* glfwPollEvents: the key state of Escape becomes what the user made it,
\* and a close request of the user sets the close flag
PollEvents(escape, closeRequest) ==
  /\ main.mpc = "poll"
  /\ main' = [Step("loopTest", << "glfwPollEvents" >>)
                EXCEPT !.escape = escape, !.shouldClose = @ \/ closeRequest]
  /\ UNCHANGED shaderVars

\* the de-allocation after the loop (there is none in 1_window.cpp)
Cleanup ==
  /\ main.mpc = "cleanup"
  /\ main' = IF main.demo = "triangle"
             THEN [Step("terminate", << "glDeleteVertexArrays", "glDeleteBuffers",
                                        "glDeleteBuffers", "glDeleteProgram" >>)
                     EXCEPT !.deleted = glDeleteProgram(@, main.program)]
             ELSE Step("terminate", << "glDeleteVertexArrays", "glDeleteBuffers",
                                       "glDeleteBuffers" >>)
  /\ UNCHANGED shaderVars

\* glfwTerminate(); return 0;
Terminate ==
  /\ main.mpc = "terminate"
  /\ main' = Return("0", << "glfwTerminate" >>)
  /\ UNCHANGED shaderVars

InitMain ==
  /\ obj = [i \in Instances |-> [state |-> "none", ID |-> 0]]
  /\ pc = "idle"
  /\ frame = NoFrame
  /\ gl = InitGL
  /\ log = [i \in Instances |-> << >>]
  /\ lastOp = NoOp
  /\ lastBind = 0
  /\ main \in { [NoMain EXCEPT !.demo = d, !.mpc = "start"] : d \in Demos }

NextMain ==
  \/ MainInit
  \/ \E ok \in BOOLEAN : CreateWindow(ok)
  \/ \E ok \in BOOLEAN : LoadGL(ok)
  \/ TriangleBuild
  \/ \E vp \in VertexPaths, fp \in FragmentPaths : NewOurShader(vp, fp)
  \/ Read
  \/ CreateVertex
  \/ SourceVertex
  \/ CompileVertex
  \/ CheckVertex
  \/ CreateFragment
  \/ SourceFragment
  \/ CompileFragment
  \/ CheckFragment
  \/ CreateProgram
  \/ AttachVertex
  \/ AttachFragment
  \/ Link
  \/ CheckProgram
  \/ DeleteVertex
  \/ DeleteFragment
  \/ TextureGeometry
  \/ \E ok \in BOOLEAN : LoadTexture(ok)
  \/ LoopTest
  \/ ProcessInput
  \/ Clear
  \/ DrawFrame
  \/ SwapBuffers
  \/ \E e \in BOOLEAN, c \in BOOLEAN : PollEvents(e, c)
  \/ Cleanup
  \/ Terminate

SpecMain == InitMain /\ [][NextMain]_vars


(* ---------------------------------------------------------------------- *)
(* Reading a constructor's log                                             *)
(* ---------------------------------------------------------------------- *)

Built(i) == obj[i].state = "built"

\* the lines the constructor of i printed, in order
Diag(i) == SelectSeq(log[i], LAMBDA e : e.call = "cout")

\* the steps the constructor of i took, in order, without what they returned
Steps(i) ==
  LET c == SelectSeq(log[i], LAMBDA e : e.call \notin {"cout", "Shader"})
  IN  [k \in DOMAIN c |-> << c[k].call, c[k].arg >>]

HasEvent(i, call, arg) ==
  \E k \in DOMAIN log[i] : log[i][k].call = call /\ log[i][k].arg = arg

\* position and result of the first event with this call and argument
IndexOf(i, call, arg) ==
  CHOOSE k \in DOMAIN log[i] :
    /\ log[i][k].call = call /\ log[i][k].arg = arg
    /\ \A j \in 1..(k - 1) : ~(log[i][j].call = call /\ log[i][j].arg = arg)

ResOf(i, call, arg) == log[i][IndexOf(i, call, arg)].res

CountOf(i, call, arg) ==
  Cardinality({ k \in DOMAIN log[i] : log[i][k].call = call /\ log[i][k].arg = arg })

VertexPathOf(i) == log[i][1].arg
FragmentPathOf(i) == log[i][1].res

ReadOK(i) == ResOf(i, "read", "") = "true"
VertexOK(i) == ResOf(i, "glGetShaderiv", "VERTEX") = "true"
FragmentOK(i) == ResOf(i, "glGetShaderiv", "FRAGMENT") = "true"
LinkOK(i) == ResOf(i, "glGetProgramiv", "PROGRAM") = "true"

FileDiag == Event("cout", "ERROR::SHADER::FILE_NOT_SUCCESFULLY_READ", "")
CompileDiag(type) == Event("cout", "ERROR::SHADER_COMPILATION_ERROR", type)
LinkDiag == Event("cout", "ERROR::PROGRAM_LINKING_ERROR", "PROGRAM")

IsPrefix(s, t) == Len(s) <= Len(t) /\ \A k \in DOMAIN s : s[k] = t[k]

\* glUseProgram on the handle installs it
Usable(g, program) == glUseProgram([g EXCEPT !.current = 0], program).current = program

(* ---------------------------------------------------------------------- *)
(* C1                                                                      *)
(* ---------------------------------------------------------------------- *)

FullSequence ==
  << << "read", "" >>,
     << "glCreateShader", "VERTEX" >>, << "glShaderSource", "VERTEX" >>,
     << "glCompileShader", "VERTEX" >>, << "glGetShaderiv", "VERTEX" >>,
     << "glCreateShader", "FRAGMENT" >>, << "glShaderSource", "FRAGMENT" >>,
     << "glCompileShader", "FRAGMENT" >>, << "glGetShaderiv", "FRAGMENT" >>,
     << "glCreateProgram", "PROGRAM" >>,
     << "glAttachShader", "VERTEX" >>, << "glAttachShader", "FRAGMENT" >>,
     << "glLinkProgram", "PROGRAM" >>, << "glGetProgramiv", "PROGRAM" >>,
     << "glDeleteShader", "VERTEX" >>, << "glDeleteShader", "FRAGMENT" >> >>

\* C1: whatever the file read, the two compiles and the link return, a
\* constructor that has started is never stopped short: while it runs it has
\* taken a proper prefix of the full step sequence, and when it has returned
\* it has taken every step, in order, and ID names the program it created.
C1_RunsToTheEnd ==
  \A i \in Instances :
    /\ obj[i].state = "building" =>
         /\ pc # "idle" /\ frame.self = i
         /\ IsPrefix(Steps(i), FullSequence) /\ Len(Steps(i)) < Len(FullSequence)
    /\ Built(i) =>
         /\ Steps(i) = FullSequence
         /\ obj[i].ID \in DOMAIN gl.programs
         /\ Len(gl.programs[obj[i].ID].attached) = 2

\* one constructor went on after a failed vertex compile, another after a
\* failed file read
C1_Witness ==
  /\ Built(1) /\ Built(2)
  /\ ReadOK(1) /\ ~VertexOK(1) /\ FragmentOK(1) /\ ~LinkOK(1)
  /\ ~ReadOK(2)

(* ---------------------------------------------------------------------- *)
(* C2                                                                      *)
(* ---------------------------------------------------------------------- *)

\* both files were read, one text has a syntax error and the other is valid;
\* the stage that fails
OneStageBad(i) ==
  /\ Built(i)
  /\ FileExists(VertexPathOf(i)) /\ FileExists(FragmentPathOf(i))
  /\ SyntaxOK(FileText(VertexPathOf(i))) # SyntaxOK(FileText(FragmentPathOf(i)))

FailingStage(i) ==
  IF SyntaxOK(FileText(VertexPathOf(i))) THEN "FRAGMENT" ELSE "VERTEX"

\* C2 as stated: with a syntax error in one stage and the other stage valid,
\* the build prints exactly one compile diagnostic, tagged with the failing
\* stage, and no link diagnostic.
C2_Original ==
  \A i \in Instances :
    OneStageBad(i) => Diag(i) = << CompileDiag(FailingStage(i)) >>

\* C2 amended: with a syntax error in one stage and the other stage valid,
\* the build prints exactly one compile diagnostic, tagged with the failing
\* stage, and after it exactly one link diagnostic, because a program with a
\* stage that did not compile does not link.
C2_OneCompileDiagThenLinkDiag ==
  \A i \in Instances :
    OneStageBad(i) => Diag(i) = << CompileDiag(FailingStage(i)), LinkDiag >>

C2_Witness ==
  /\ OneStageBad(1) /\ FailingStage(1) = "VERTEX"
  /\ OneStageBad(2) /\ FailingStage(2) = "FRAGMENT"

(* ---------------------------------------------------------------------- *)
(* C3                                                                      *)
(* ---------------------------------------------------------------------- *)

\* C3: the handle of a finished build can be installed by glUseProgram if
\* and only if the vertex compile, the fragment compile and the link, as the
\* constructor queried them, all succeeded.
C3_ValidIffAllSucceeded ==
  \A i \in Instances :
    Built(i) => (Usable(gl, obj[i].ID) <=> (VertexOK(i) /\ FragmentOK(i) /\ LinkOK(i)))

\* a usable handle next to one whose compiles succeeded and whose link failed
C3_Witness ==
  /\ Built(1) /\ Usable(gl, obj[1].ID)
  /\ Built(2) /\ VertexOK(2) /\ FragmentOK(2) /\ ~LinkOK(2) /\ ~Usable(gl, obj[2].ID)


(* ---------------------------------------------------------------------- *)
(* C4                                                                      *)
(* ---------------------------------------------------------------------- *)

\* name is an active uniform of the linked program of i
ActiveIn(i, name) == LocationOf(gl, obj[i].ID, name) # -1

\* C4 as stated: after setInt(name, v) on a Shader whose linked program has
\* name as an active uniform, the read-back of that uniform on that program
\* is v, whichever program is current.
C4_Original ==
  (lastOp.op = "setInt" /\ ActiveIn(lastOp.self, lastOp.name))
    => ReadBack(gl, obj[lastOp.self].ID, lastOp.name) = lastOp.value

\* C4 amended: after setInt(name, v) on a Shader whose linked program has
\* name as an active uniform of an integer type (int or sampler), called
\* while that program is the current program, the read-back of that uniform
\* on that program is v.
C4_ReadBackWhenCurrent ==
  (/\ lastOp.op = "setInt" /\ ActiveIn(lastOp.self, lastOp.name)
   /\ TypeOf(gl, obj[lastOp.self].ID, lastOp.name) \in {"int", "sampler2D"}
   /\ gl.current = obj[lastOp.self].ID)
    => ReadBack(gl, obj[lastOp.self].ID, lastOp.name) = lastOp.value

C4_Witness ==
  /\ lastOp.op = "setInt" /\ lastOp.name = "u_name" /\ lastOp.value = MaxVal
  /\ ActiveIn(lastOp.self, "u_name")
  /\ gl.current = obj[lastOp.self].ID
  /\ ReadBack(gl, obj[lastOp.self].ID, "u_name") = MaxVal

(* ---------------------------------------------------------------------- *)
(* C5                                                                      *)
(* ---------------------------------------------------------------------- *)

\* the step is a call of use / setBool / setInt / setFloat on i
MemberStep(i) ==
  /\ pc = "idle" /\ pc' = "idle"
  /\ lastOp'.op \in {"use", "setBool", "setInt", "setFloat"}
  /\ lastOp'.self = i

UniformsUnchanged(p) == gl'.programs[p].uniforms = gl.programs[p].uniforms

\* C5 as stated: a call on a Shader instance leaves the uniform state of
\* every program other than the instance's own unchanged, also when another
\* program is current.
C5_Original ==
  [][\A i \in Instances :
       MemberStep(i) => \A p \in DOMAIN gl.programs \ {obj[i].ID} : UniformsUnchanged(p)]_vars

\* C5 amended: a call on a Shader instance changes at most the uniform state
\* of the program that is current when it is called, and use() changes no
\* uniform state; so the uniform state of every program other than the
\* instance's own is unchanged when the instance's program is the current
\* one, while a set call made with another program current can write that
\* program's uniforms.  No call creates, relinks or deletes an object.
C5_OnlyTheCurrentProgram ==
  [][\A i \in Instances :
       MemberStep(i) =>
         /\ \A p \in DOMAIN gl.programs \ {gl.current} : UniformsUnchanged(p)
         /\ lastOp'.op = "use" => UniformState(gl') = UniformState(gl)
         /\ gl'.shaders = gl.shaders
         /\ DOMAIN gl'.programs = DOMAIN gl.programs
         /\ \A p \in DOMAIN gl.programs :
              /\ gl'.programs[p].linked = gl.programs[p].linked
              /\ gl'.programs[p].attached = gl.programs[p].attached]_vars

\* setInt on instance 1 was called with the program of instance 2 current
\* and that program holds the value
C5_Witness ==
  /\ lastOp.op = "setInt" /\ lastOp.self = 1 /\ lastOp.name = "u_name" /\ lastOp.value = 1
  /\ Built(2) /\ gl.current = obj[2].ID
  /\ ActiveIn(1, "u_name") /\ ActiveIn(2, "u_name")
  /\ ReadBack(gl, obj[2].ID, "u_name") = 1

(* ---------------------------------------------------------------------- *)
(* C6                                                                      *)
(* ---------------------------------------------------------------------- *)

MissingPath(i) ==
  log[i] # << >> /\ (~FileExists(VertexPathOf(i)) \/ ~FileExists(FragmentPathOf(i)))

\* C6: when a path does not exist the constructor is not stopped: the read
\* fails, the file-read diagnostic is the first line printed, both stages are
\* given the empty string, and the constructor returns having printed the
\* compile diagnostic of the vertex stage right after the file-read
\* diagnostic (followed by that of the fragment stage and the link
\* diagnostic).
C6_MissingFileGoesOn ==
  \A i \in Instances :
    MissingPath(i) =>
      /\ HasEvent(i, "read", "") => (~ReadOK(i) /\ Diag(i) # << >> /\ Diag(i)[1] = FileDiag)
      /\ HasEvent(i, "glShaderSource", "VERTEX") => ResOf(i, "glShaderSource", "VERTEX") = ""
      /\ HasEvent(i, "glShaderSource", "FRAGMENT") => ResOf(i, "glShaderSource", "FRAGMENT") = ""
      /\ HasEvent(i, "glGetShaderiv", "VERTEX") =>
           IsPrefix(<< FileDiag, CompileDiag("VERTEX") >>, Diag(i))
      /\ Built(i) =>
           Diag(i) = << FileDiag, CompileDiag("VERTEX"), CompileDiag("FRAGMENT"), LinkDiag >>

\* a constructor given a missing fragment file and an existing vertex file
\* has returned
C6_Witness ==
  /\ Built(1) /\ FileExists(VertexPathOf(1)) /\ ~FileExists(FragmentPathOf(1))
  /\ Diag(1)[1] = FileDiag /\ Diag(1)[2] = CompileDiag("VERTEX")

(* ---------------------------------------------------------------------- *)
(* C7                                                                      *)
(* ---------------------------------------------------------------------- *)

\* two readable files whose texts compile and link
ValidPair(vertexPath, fragmentPath) ==
  /\ FileExists(vertexPath) /\ FileExists(fragmentPath)
  /\ SyntaxOK(FileText(vertexPath)) /\ SyntaxOK(FileText(fragmentPath))
  /\ VaryingsOf(FileText(fragmentPath)) \subseteq VaryingsOf(FileText(vertexPath))

\* C7: a build from a valid pair prints nothing at any point, and once it has
\* returned its handle is installed by use().
C7_ValidPairNoDiagnostic ==
  \A i \in Instances :
    (log[i] # << >> /\ ValidPair(VertexPathOf(i), FragmentPathOf(i))) =>
      /\ Diag(i) = << >>
      /\ Built(i) => (VertexOK(i) /\ FragmentOK(i) /\ LinkOK(i) /\ Usable(gl, obj[i].ID))
      /\ (lastOp.op = "use" /\ lastOp.self = i) => gl.current = obj[i].ID

\* a build from a valid pair has returned without output and use() has
\* installed its handle
C7_Witness ==
  /\ Built(2) /\ ValidPair(VertexPathOf(2), FragmentPathOf(2))
  /\ Diag(2) = << >>
  /\ lastOp.op = "use" /\ lastOp.self = 2 /\ gl.current = obj[2].ID

(* ---------------------------------------------------------------------- *)
(* C8                                                                      *)
(* ---------------------------------------------------------------------- *)

\* C8: in every build each of the two shader objects is passed to
\* glDeleteShader at most once, never before the link status has been
\* queried, and exactly once by the time the constructor returns, whatever
\* the compiles and the link returned; both objects are then flagged for
\* deletion.
C8_ShadersDeletedOnceAfterLink ==
  \A i \in Instances :
    /\ \A type \in {"VERTEX", "FRAGMENT"} :
         /\ CountOf(i, "glDeleteShader", type) <= 1
         /\ HasEvent(i, "glDeleteShader", type) =>
              /\ HasEvent(i, "glGetProgramiv", "PROGRAM")
              /\ IndexOf(i, "glGetProgramiv", "PROGRAM") < IndexOf(i, "glDeleteShader", type)
         /\ Built(i) => CountOf(i, "glDeleteShader", type) = 1
    /\ Built(i) =>
         \A k \in DOMAIN gl.programs[obj[i].ID].attached :
           gl.shaders[gl.programs[obj[i].ID].attached[k]].flagged
    /\ (obj[i].state = "building" /\ ~HasEvent(i, "glGetProgramiv", "PROGRAM")) =>
         \A sh \in {frame.vertex, frame.fragment} \ {0} : ~gl.shaders[sh].flagged

\* a build whose link succeeded and one whose compiles and link failed have
\* both deleted their shaders
C8_Witness ==
  /\ Built(1) /\ LinkOK(1)
  /\ Built(2) /\ ~VertexOK(2) /\ ~FragmentOK(2) /\ ~LinkOK(2)
  /\ CountOf(2, "glDeleteShader", "VERTEX") = 1
  /\ CountOf(2, "glDeleteShader", "FRAGMENT") = 1

(* ---------------------------------------------------------------------- *)
(* C9                                                                      *)
(* ---------------------------------------------------------------------- *)

\* the step is a call of setBool / setInt / setFloat on i
SetStep(i) ==
  /\ pc = "idle" /\ pc' = "idle"
  /\ lastOp'.op \in {"setBool", "setInt", "setFloat"}
  /\ lastOp'.self = i

C10_Original ==
  lastOp.op = "use" => gl.current = obj[lastOp.self].ID

UseStep(i) ==
  /\ pc = "idle" /\ pc' = "idle"
  /\ lastOp'.op = "use" /\ lastOp'.self = i

\* C10 amended: after use() returns on an instance whose program linked, the
\* current program is the instance's ID, whatever was current before, and a
\* draw issued before any other use() draws with it; use() on any instance
\* changes neither an ID nor a uniform value, and on an instance whose link
\* failed it leaves the current program as it was.
C10_UseBindsLinkedProgram ==
  /\ [](\A i \in Instances :
          IsLinkedProgram(gl, obj[i].ID) =>
            /\ (lastOp.op = "use" /\ lastOp.self = i) => gl.current = obj[i].ID
            /\ (lastOp.op = "draw" /\ lastBind = i) => lastOp.drawn = obj[i].ID)
  /\ [][\A i \in Instances :
          UseStep(i) =>
            /\ obj' = obj
            /\ UniformState(gl') = UniformState(gl)
            /\ ~IsLinkedProgram(gl, obj[i].ID) => gl'.current = gl.current]_vars

\* a draw after use() on instance 2, both programs being linked
C10_Witness ==
  /\ lastOp.op = "draw" /\ lastBind = 2
  /\ IsLinkedProgram(gl, obj[1].ID) /\ IsLinkedProgram(gl, obj[2].ID)
  /\ lastOp.drawn = obj[2].ID


(* ---------------------------------------------------------------------- *)
(* C13                                                                     *)
(* ---------------------------------------------------------------------- *)

CountDiag(i, d) == Cardinality({ k \in DOMAIN Diag(i) : Diag(i)[k] = d })

\* C13: when either file cannot be opened, the constructor prints the
\* file-read diagnostic exactly once, also when both files are missing, and
\* gives the empty string to both stages, also to the stage whose file could
\* be read; when both files can be opened it prints no file-read diagnostic
\* and each stage gets the text of its file.
C13_OneFileDiagBothEmpty ==
  \A i \in Instances :
    HasEvent(i, "read", "") =>
      /\ MissingPath(i) =>
           /\ CountDiag(i, FileDiag) = 1
           /\ \A type \in {"VERTEX", "FRAGMENT"} :
                HasEvent(i, "glShaderSource", type) => ResOf(i, "glShaderSource", type) = ""
      /\ ~MissingPath(i) =>
           /\ CountDiag(i, FileDiag) = 0
           /\ HasEvent(i, "glShaderSource", "VERTEX") =>
                ResOf(i, "glShaderSource", "VERTEX") = FileText(VertexPathOf(i))
           /\ HasEvent(i, "glShaderSource", "FRAGMENT") =>
                ResOf(i, "glShaderSource", "FRAGMENT") = FileText(FragmentPathOf(i))

\* one constructor was given a readable vertex file and a missing fragment
\* file, another two missing files; both compiled the empty string twice
C13_Witness ==
  /\ Built(1) /\ VertexPathOf(1) = "pass.vs" /\ FragmentPathOf(1) = "missing"
  /\ ResOf(1, "glShaderSource", "VERTEX") = ""
  /\ Built(2) /\ VertexPathOf(2) = "missing" /\ FragmentPathOf(2) = "missing"
  /\ CountDiag(2, FileDiag) = 1

(* ---------------------------------------------------------------------- *)
(* C14                                                                     *)
(* ---------------------------------------------------------------------- *)

\* the place of a diagnostic in the order file-read, vertex, fragment, link
Rank(d) ==
  CASE d = FileDiag                 -> 1
    [] d = CompileDiag("VERTEX")    -> 2
    [] d = CompileDiag("FRAGMENT")  -> 3
    [] d = LinkDiag                 -> 4
    [] OTHER                        -> 0

\* the diagnostic d is the event right after the status query (call, arg)
\* when that query returned failure, and is not printed at all otherwise
PrintedIffFailed(i, call, arg, d) ==
  HasEvent(i, call, arg) =>
    LET k == IndexOf(i, call, arg) IN
      IF log[i][k].res = "false"
      THEN CountDiag(i, d) = 1 /\ k < Len(log[i]) /\ log[i][k + 1] = d
      ELSE CountDiag(i, d) = 0

\* C14: in one build every line printed is one of the four diagnostics, each
\* at most once and in the order file-read, vertex compile, fragment
\* compile, link; a compile diagnostic is printed exactly when the compile
\* status queried for that stage is failure and the link diagnostic exactly
\* when the link status queried is failure, none before its query; the link
\* status is queried only with the tag PROGRAM and the compile status only
\* with the other tags, and each queried status is the status of the object.
C14_DiagnosticsInOrder ==
  \A i \in Instances :
    /\ \A k \in DOMAIN Diag(i) : Rank(Diag(i)[k]) # 0
    /\ \A j, k \in DOMAIN Diag(i) : j < k => Rank(Diag(i)[j]) < Rank(Diag(i)[k])
    /\ PrintedIffFailed(i, "glGetShaderiv", "VERTEX", CompileDiag("VERTEX"))
    /\ PrintedIffFailed(i, "glGetShaderiv", "FRAGMENT", CompileDiag("FRAGMENT"))
    /\ PrintedIffFailed(i, "glGetProgramiv", "PROGRAM", LinkDiag)
    /\ ~HasEvent(i, "glGetShaderiv", "VERTEX") => CountDiag(i, CompileDiag("VERTEX")) = 0
    /\ ~HasEvent(i, "glGetShaderiv", "FRAGMENT") => CountDiag(i, CompileDiag("FRAGMENT")) = 0
    /\ ~HasEvent(i, "glGetProgramiv", "PROGRAM") => CountDiag(i, LinkDiag) = 0
    /\ \A k \in DOMAIN log[i] :
         /\ log[i][k].call = "glGetProgramiv" => log[i][k].arg = "PROGRAM"
         /\ log[i][k].call = "glGetShaderiv" => log[i][k].arg \in {"VERTEX", "FRAGMENT"}
    /\ CountOf(i, "glGetShaderiv", "VERTEX") <= 1
    /\ CountOf(i, "glGetShaderiv", "FRAGMENT") <= 1
    /\ CountOf(i, "glGetProgramiv", "PROGRAM") <= 1
    /\ Built(i) =>
         /\ LinkOK(i) = gl.programs[obj[i].ID].linked
         /\ VertexOK(i) = gl.shaders[gl.programs[obj[i].ID].attached[1]].compiled
         /\ FragmentOK(i) = gl.shaders[gl.programs[obj[i].ID].attached[2]].compiled

\* a build that printed only the fragment and link diagnostics next to one
\* that printed all four
C14_Witness ==
  /\ Built(1) /\ Diag(1) = << CompileDiag("FRAGMENT"), LinkDiag >>
  /\ Built(2) /\ Diag(2) = << FileDiag, CompileDiag("VERTEX"), CompileDiag("FRAGMENT"), LinkDiag >>


(* ---------------------------------------------------------------------- *)
(* Reading the calls of main                                               *)
(* ---------------------------------------------------------------------- *)

HasCall(c) == \E k \in DOMAIN main.calls : main.calls[k] = c

CountCall(c) == Cardinality({ k \in DOMAIN main.calls : main.calls[k] = c })

\* position of the first call in the set cs (one past the end if none)
FirstOf(t, cs) ==
  IF \E k \in DOMAIN t : t[k] \in cs
  THEN CHOOSE k \in DOMAIN t : t[k] \in cs /\ \A j \in 1..(k - 1) : t[j] \notin cs
  ELSE Len(t) + 1

LoopTests == {"glfwWindowShouldClose:false", "glfwWindowShouldClose:true"}

\* the calls of main from the first evaluation of the loop condition on
LoopCalls ==
  SubSeq(main.calls, FirstOf(main.calls, LoopTests), Len(main.calls))

\* the calls of one iteration of the loop, after its condition
FrameBody(demo) ==
  IF demo = "window"
  THEN << "processInput", "glClear", "glfwSwapBuffers", "glfwPollEvents" >>
  ELSE << "processInput", "glClear", "glUseProgram", "glDrawElements",
          "glfwSwapBuffers", "glfwPollEvents" >>

\* the calls of main after the loop condition has been found false
ExitCalls(demo) ==
  << "glfwWindowShouldClose:true" >>
  \o (CASE demo = "triangle" -> << "glDeleteVertexArrays", "glDeleteBuffers",
                                   "glDeleteBuffers", "glDeleteProgram" >>
        [] demo = "texture"  -> << "glDeleteVertexArrays", "glDeleteBuffers",
                                   "glDeleteBuffers" >>
        [] OTHER             -> << >>)
  \o << "glfwTerminate", "return" >>

(* ---------------------------------------------------------------------- *)
(* C11                                                                     *)
(* ---------------------------------------------------------------------- *)

\* C11: when a demo program reaches glfwTerminate on its normal exit, and
\* after it has returned 0, every program object that was created has been
\* passed to glDeleteProgram.
C11_ProgramsReleasedBeforeTerminate ==
  (main.mpc = "terminate" \/ (main.mpc = "returned" /\ main.ret = "0"))
    => \A p \in DOMAIN gl.programs : p \in main.deleted

(* ---------------------------------------------------------------------- *)
(* C12                                                                     *)
(* ---------------------------------------------------------------------- *)

\* C12: from the first evaluation of the loop condition on, the calls of
\* main are whole iterations (condition false, processInput, clear, bind and
\* draw where present, swap, poll), in that order, then the condition true,
\* the cleanup, glfwTerminate and the return; the body is entered only
\* after the condition was read as false; glfwSetWindowShouldClose is called
\* only by processInput, the flag stays set from then on, and what follows
\* that call is the rest of the same iteration and then the exit, with no
\* further iteration.
C12_FrameOrderAndExit ==
  LET t     == LoopCalls
      u     == SelectSeq(t, LAMBDA c : c # "glfwSetWindowShouldClose")
      frame_ == << "glfwWindowShouldClose:false" >> \o FrameBody(main.demo)
      x     == FirstOf(u, {"glfwWindowShouldClose:true"})
  IN  /\ \A k \in DOMAIN u :
           IF k < x
           THEN u[k] = frame_[((k - 1) % Len(frame_)) + 1]
           ELSE /\ (x - 1) % Len(frame_) = 0
                /\ k - x + 1 <= Len(ExitCalls(main.demo))
                /\ u[k] = ExitCalls(main.demo)[k - x + 1]
      /\ \A k \in DOMAIN t :
           t[k] = "glfwSetWindowShouldClose" =>
             /\ k > 1 /\ t[k - 1] = "processInput"
             /\ main.shouldClose
             /\ IsPrefix(SubSeq(t, k + 1, Len(t)),
                         Tail(FrameBody(main.demo)) \o ExitCalls(main.demo))
      /\ main.mpc \in {"processInput", "clear", "drawFrame", "swap", "poll"} =>
           \E k \in DOMAIN t :
             /\ t[k] = "glfwWindowShouldClose:false"
             /\ \A j \in (k + 1)..Len(t) : t[j] \notin LoopTests
      /\ main.mpc = "returned" /\ main.ret = "0" =>
           /\ x <= Len(u)
           /\ SubSeq(u, x, Len(u)) = ExitCalls(main.demo)

\* the texture demo has returned after a frame without Escape and a frame
\* in which processInput set the close flag
C12_Witness ==
  /\ main.demo = "texture" /\ main.mpc = "returned" /\ main.ret = "0"
  /\ main.frames = 2
  /\ CountCall("glfwSetWindowShouldClose") = 1
  /\ CountCall("glDrawElements") = 2

(* ---------------------------------------------------------------------- *)
(* C15                                                                     *)
(* ---------------------------------------------------------------------- *)

\* C15: a demo program that has returned after glfwInit has called
\* glfwTerminate, and one that has returned -1 has never evaluated the loop
\* condition.
C15_TerminateOnEveryReturn ==
  (main.mpc = "returned" /\ HasCall("glfwInit")) =>
    /\ HasCall("glfwTerminate")
    /\ main.ret = "-1" => LoopCalls = << >>

(* ---------------------------------------------------------------------- *)
(* C16                                                                     *)
(* ---------------------------------------------------------------------- *)

\* C16: in the texture demo, stbi_load is followed by glTexImage2D and
\* glGenerateMipmap exactly when it returned a buffer, and by the line
\* "Failed to load texture" instead when it returned null; then by one call
\* of stbi_image_free with what stbi_load returned, the only one there is;
\* then by the first evaluation of the loop condition; main does not return
\* -1 after stbi_load.
C16_FailedLoadIsNotFatal ==
  LET t == main.calls
      k == FirstOf(t, {"stbi_load:buffer", "stbi_load:null"})
      expected == IF k <= Len(t) /\ t[k] = "stbi_load:buffer"
                  THEN << "stbi_load:buffer", "glTexImage2D", "glGenerateMipmap",
                          "stbi_image_free:buffer" >>
                  ELSE << "stbi_load:null", "cout:Failed to load texture",
                          "stbi_image_free:null" >>
  IN  /\ (main.demo = "texture" /\ main.mpc \in {"loopTest", "processInput", "clear",
            "drawFrame", "swap", "poll", "cleanup", "terminate"}) => k <= Len(t)
      /\ k <= Len(t) =>
           /\ main.demo = "texture"
           /\ Len(t) >= k + Len(expected) - 1
           /\ SubSeq(t, k, k + Len(expected) - 1) = expected
           /\ Len(t) >= k + Len(expected) => t[k + Len(expected)] \in LoopTests
           /\ CountCall("stbi_load:buffer") + CountCall("stbi_load:null") = 1
           /\ CountCall("stbi_image_free:buffer") + CountCall("stbi_image_free:null") = 1
           /\ CountCall("glTexImage2D") = CountCall("stbi_load:buffer")
           /\ CountCall("glGenerateMipmap") = CountCall("stbi_load:buffer")
           /\ CountCall("cout:Failed to load texture") = CountCall("stbi_load:null")
           /\ main.ret # "-1"

\* the texture demo has drawn a frame after a failed load
C16_Witness ==
  /\ main.demo = "texture"
  /\ HasCall("stbi_load:null") /\ HasCall("stbi_image_free:null")
  /\ ~HasCall("glTexImage2D")
  /\ HasCall("glDrawElements")

====
